---- MODULE Spec2Model ----
(***************************************************************************)
(* Model of generate-darwin-source-and-headers.py: the platform descriptor *)
(* table, file staging (move_file / copy_files), the target builder        *)
(* (build_target), the driver generate_source_and_headers with its header  *)
(* unifier loop, and the command-line entry point.                         *)
(*                                                                         *)
(* Representation.  A file name is a sequence of string tokens, e.g.       *)
(* <<"ffi", ".h">>; string formatting and concatenation are sequence       *)
(* concatenation, so "%s_%s%s" % (stem, arch, ext) is                      *)
(* stem \o <<"_", arch>> \o ext.  A path is a sequence of components, each *)
(* a sequence of tokens.  A file's content is a sequence of tokens.        *)
(* Relative paths are resolved against the current working directory.      *)
(***************************************************************************)
EXTENDS Integers, Sequences, FiniteSets, TLC

\* ------------------------------------------------------------------ bounds
MaxMissing == 1
MaxCalls == 2

\* ------------------------------------------------- platform descriptor table
ios_simulator_platform ==
  [name |-> "ios_simulator_platform", directory |-> <<"darwin_ios">>,
   sdk |-> "iphonesimulator", arch |-> "i386", triple |-> "i386-apple-darwin11",
   version_min |-> "-miphoneos-version-min=8.0",
   prefix |-> "#ifdef __i386__\n\n", suffix |-> "\n\n#endif", src_dir |-> <<"x86">>,
   src_files |-> << <<"sysv", ".S">>, <<"ffi", ".c">> >>,
   hdr_files |-> << <<"internal", ".h">> >>]

ios_simulator64_platform ==
  [name |-> "ios_simulator64_platform", directory |-> <<"darwin_ios">>,
   sdk |-> "iphonesimulator", arch |-> "x86_64", triple |-> "x86_64-apple-darwin13",
   version_min |-> "-miphoneos-version-min=8.0",
   prefix |-> "#ifdef __x86_64__\n\n", suffix |-> "\n\n#endif", src_dir |-> <<"x86">>,
   src_files |-> << <<"unix64", ".S">>, <<"ffi64", ".c">>, <<"ffiw64", ".c">>, <<"win64", ".S">> >>,
   hdr_files |-> << <<"internal64", ".h">>, <<"asmnames", ".h">> >>]

ios_device_platform ==
  [name |-> "ios_device_platform", directory |-> <<"darwin_ios">>,
   sdk |-> "iphoneos", arch |-> "armv7", triple |-> "arm-apple-darwin11",
   version_min |-> "-miphoneos-version-min=8.0",
   prefix |-> "#ifdef __arm__\n\n", suffix |-> "\n\n#endif", src_dir |-> <<"arm">>,
   src_files |-> << <<"sysv", ".S">>, <<"ffi", ".c">> >>,
   hdr_files |-> << <<"internal", ".h">> >>]

ios_device64_platform ==
  [name |-> "ios_device64_platform", directory |-> <<"darwin_ios">>,
   sdk |-> "iphoneos", arch |-> "arm64", triple |-> "aarch64-apple-darwin13",
   version_min |-> "-miphoneos-version-min=8.0",
   prefix |-> "#ifdef __arm64__\n\n", suffix |-> "\n\n#endif", src_dir |-> <<"aarch64">>,
   src_files |-> << <<"sysv", ".S">>, <<"ffi", ".c">> >>,
   hdr_files |-> << <<"internal", ".h">> >>]

tvos_simulator64_platform ==
  [name |-> "tvos_simulator64_platform", directory |-> <<"darwin_tvos">>,
   sdk |-> "appletvsimulator", arch |-> "x86_64", triple |-> "x86_64-apple-darwin13",
   version_min |-> "-mappletvos-version-min=9.0",
   prefix |-> "#ifdef __x86_64__\n\n", suffix |-> "\n\n#endif", src_dir |-> <<"x86">>,
   src_files |-> << <<"unix64", ".S">>, <<"ffi64", ".c">> >>,
   hdr_files |-> << <<"internal64", ".h">> >>]

tvos_device64_platform ==
  [name |-> "tvos_device64_platform", directory |-> <<"darwin_tvos">>,
   sdk |-> "appletvos", arch |-> "arm64", triple |-> "aarch64-apple-darwin13",
   version_min |-> "-mappletvos-version-min=9.0",
   prefix |-> "#ifdef __arm64__\n\n", suffix |-> "\n\n#endif", src_dir |-> <<"aarch64">>,
   src_files |-> << <<"sysv", ".S">>, <<"ffi", ".c">> >>,
   hdr_files |-> << <<"internal", ".h">> >>]

desktop_amd64_platform ==
  [name |-> "desktop_amd64_platform", directory |-> <<"darwin_osx">>,
   sdk |-> "macosx", arch |-> "x86_64", triple |-> "x86_64-apple-darwin10",
   version_min |-> "-mmacosx-version-min=10.6",
   prefix |-> "#ifdef __x86_64__\n\n", suffix |-> "\n\n#endif", src_dir |-> <<"x86">>,
   src_files |-> << <<"unix64", ".S">>, <<"ffi64", ".c">>, <<"ffiw64", ".c">>, <<"win64", ".S">> >>,
   hdr_files |-> << <<"internal64", ".h">>, <<"asmnames", ".h">> >>]

desktop_arm64_platform ==
  [name |-> "desktop_arm64_platform", directory |-> <<"darwin_osx">>,
   sdk |-> "macosx", arch |-> "arm64", triple |-> "aarch64-apple-darwin20",
   version_min |-> "-mmacosx-version-min=11.0",
   prefix |-> "#ifdef __arm64__\n\n", suffix |-> "\n\n#endif", src_dir |-> <<"aarch64">>,
   src_files |-> << <<"sysv", ".S">>, <<"ffi", ".c">> >>,
   hdr_files |-> << <<"internal", ".h">> >>]

\* Every Platform subclass the script defines.
Platforms ==
  {ios_simulator_platform, ios_simulator64_platform, ios_device_platform,
   ios_device64_platform, tvos_simulator64_platform, tvos_device64_platform,
   desktop_amd64_platform, desktop_arm64_platform}

\* ------------------------------------------------------------ path helpers
\* os.path.join of a directory and one more component.
join(dir, comp) == Append(dir, comp)

\* A relative path resolved against the working directory wd.
Abs(wd, path) == wd \o path

\* The tokens of a path, in order (used to name a file's original bytes).
RECURSIVE Flatten(_)
Flatten(path) ==
  IF path = <<>> THEN <<>> ELSE Head(path) \o Flatten(Tail(path))

\* File-name extensions os.path.splitext recognises in this tree.
Extensions == {".h", ".c", ".S", ".in"}

\* os.path.splitext: (root, ext), the extension being the last dotted token.
splitext(filename) ==
  IF Len(filename) > 1 /\ filename[Len(filename)] \in Extensions
  THEN <<SubSeq(filename, 1, Len(filename) - 1), <<filename[Len(filename)]>> >>
  ELSE <<filename, <<>> >>

\* The header names move_file never suffixes.
AllowList == { <<"internal64", ".h">>, <<"asmnames", ".h">>, <<"internal", ".h">> }

\* "No value" for the optional string arguments (None and '' are both falsy).
None == ""

\* A variant of OutFilename without the allow-list test.
OutFilename_AlwaysSuffixed(filename, file_suffix) ==
  IF file_suffix # None
  THEN splitext(filename)[1] \o <<"_", file_suffix>> \o splitext(filename)[2]
  ELSE filename

\* move_file's output file name.
OutFilename(filename, file_suffix) ==
  IF file_suffix # None
  THEN IF filename \in AllowList
       THEN filename
       ELSE splitext(filename)[1] \o <<"_", file_suffix>> \o splitext(filename)[2]
  ELSE filename

\* A variant of Wrapped that omits the trailing guard.
Wrapped_NoSuffix(prefix, contents, suffix) ==
  (IF prefix # None THEN <<prefix>> ELSE <<>>) \o contents

\* prefix + contents + suffix as move_file writes them.
Wrapped(prefix, contents, suffix) ==
  (IF prefix # None THEN <<prefix>> ELSE <<>>) \o contents
     \o (IF suffix # None THEN <<suffix>> ELSE <<>>)

\* ------------------------------------------------------- filesystem state
\* A filesystem/process state threaded through the staging operators:
\*   cwd   current working directory (absolute path)
\*   dirs  set of existing directories (absolute paths)
\*   fs    function from absolute file path to content
\*   err   TRUE once an exception has been raised and is propagating
Prefixes(path) == { SubSeq(path, 1, n) : n \in 0..Len(path) }

\* mkdir_p: os.makedirs, EEXIST ignored.
mkdir_p(st, path) ==
  [st EXCEPT !.dirs = st.dirs \cup Prefixes(Abs(st.cwd, path))]

\* open(path, 'w') followed by the writes: creates or truncates the file.
WriteFile(st, path, content) ==
  [st EXCEPT !.fs = [q \in DOMAIN st.fs \cup {Abs(st.cwd, path)} |->
                       IF q = Abs(st.cwd, path) THEN content ELSE st.fs[q]]]

move_file(st, src_dir, dst_dir, filename, file_suffix, prefix, suffix) ==
  IF st.err THEN st
  ELSE LET made == mkdir_p(st, dst_dir)
           src == Abs(st.cwd, join(src_dir, filename))
       IN IF src \notin DOMAIN st.fs
          THEN [made EXCEPT !.err = TRUE]
          ELSE WriteFile(made, join(dst_dir, OutFilename(filename, file_suffix)),
                         Wrapped(prefix, st.fs[src], suffix))

\* glob.iglob(os.path.join(src_dir, '*' + ext)) mapped through basename.
GlobNames(st, src_dir, ext) ==
  { p[Len(p)] : p \in { q \in DOMAIN st.fs :
        /\ Len(q) = Len(Abs(st.cwd, src_dir)) + 1
        /\ SubSeq(q, 1, Len(q) - 1) = Abs(st.cwd, src_dir)
        /\ splitext(q[Len(q)])[2] = <<ext>> } }

\* copy_files with an explicit filelist: move_file for each name in order.
RECURSIVE copy_filelist(_, _, _, _, _, _, _)
copy_filelist(st, src_dir, dst_dir, filelist, file_suffix, prefix, suffix) ==
  IF filelist = <<>> THEN st
  ELSE copy_filelist(
         move_file(st, src_dir, dst_dir, Head(filelist), file_suffix, prefix, suffix),
         src_dir, dst_dir, Tail(filelist), file_suffix, prefix, suffix)

\* copy_files with a pattern: move_file for each globbed name.  The names
\* map to pairwise distinct outputs, so the enumeration order is immaterial.
RECURSIVE copy_names(_, _, _, _, _, _, _)
copy_names(st, src_dir, dst_dir, names, file_suffix, prefix, suffix) ==
  IF names = {} THEN st
  ELSE LET n == CHOOSE x \in names : TRUE
       IN copy_names(
            move_file(st, src_dir, dst_dir, n, file_suffix, prefix, suffix),
            src_dir, dst_dir, names \ {n}, file_suffix, prefix, suffix)

copy_pattern(st, src_dir, dst_dir, ext, file_suffix, prefix, suffix) ==
  copy_names(st, src_dir, dst_dir, GlobNames(st, src_dir, ext), file_suffix, prefix, suffix)

copy_src_platform_files(st, platform) ==
  LET src_dir == <<<<"src">>, platform.src_dir>>
      dst_dir == <<platform.directory, <<"src">>, platform.src_dir>>
      srcs == copy_filelist(st, src_dir, dst_dir, platform.src_files,
                            platform.arch, platform.prefix, platform.suffix)
  IN copy_filelist(srcs, src_dir, dst_dir, platform.hdr_files,
                   None, platform.prefix, platform.suffix)


\* ------------------------------------------------------------ build_target
\* build_dir = 'build_%s' % ('%s-%s' % (platform.sdk, platform.arch))
build_dir(platform) == <<"build_", platform.sdk, "-", platform.arch>>

\* The (prefix, arch, suffix) tuple build_target records for a platform.
Triple(platform) == <<platform.prefix, platform.arch, platform.suffix>>

\* A variant of RegistryAdd that assigns {triple} instead of adding to the set.
RegistryAdd_Overwrites(registry, names, triple) ==
  [h \in DOMAIN registry \cup names |->
     IF h \in names THEN {triple} ELSE registry[h]]

\* platform_headers[filename].add(triple) for every name in names
\* (collections.defaultdict(set): a missing key starts as the empty set).
RegistryAdd(registry, names, triple) ==
  [h \in DOMAIN registry \cup names |->
     IF h \in names
     THEN (IF h \in DOMAIN registry THEN registry[h] ELSE {}) \cup {triple}
     ELSE registry[h]]

\* First half of build_target: mkdir_p(build_dir), os.getcwd(), and the
\* os.chdir(build_dir) that precedes the configure child process.
build_target_enter(st, platform) ==
  LET made == mkdir_p(st, <<build_dir(platform)>>)
  IN [made EXCEPT !.cwd = Abs(st.cwd, <<build_dir(platform)>>)]

\* A variant of RestoreCwd that leaves the process where it is.
RestoreCwd_Missing(st, saved) == st

\* The finally clause of build_target.
RestoreCwd(st, saved) == [st EXCEPT !.cwd = saved]

\* The loop over [build_dir, build_dir/include] of build_target: stage the
\* headers of each directory, then record the triple under each file name.
\* Returns the filesystem state and the registry.
build_target_stage(st, registry, platform) ==
  LET bd  == <<build_dir(platform)>>
      bdi == <<build_dir(platform), <<"include">> >>
      dst == <<platform.directory, <<"include">> >>
      st1 == copy_pattern(st, bd, dst, ".h", platform.arch, platform.prefix, platform.suffix)
      r1  == RegistryAdd(registry, GlobNames(st1, bd, ".h"), Triple(platform))
      st2 == copy_pattern(st1, bdi, dst, ".h", platform.arch, platform.prefix, platform.suffix)
      r2  == RegistryAdd(r1, GlobNames(st2, bdi, ".h"), Triple(platform))
  IN [st |-> st2, registry |-> r2,
      listed |-> GlobNames(st1, bd, ".h") \cup GlobNames(st2, bdi, ".h")]

\* ------------------------------------------------- the configure child process
\* What one run of ../configure may leave in the build directory: header
\* names generated in the directory itself and in its include/ subdirectory.
ConfigureOutputs ==
  { [root |-> { <<"fficonfig", ".h">> }, include |-> { <<"ffi", ".h">> }],
    [root |-> { <<"ffi", ".h">> },
     include |-> { <<"ffi", ".h">>, <<"internal", ".h">> }] }

\* Exit statuses of the child process.
ExitCodes == {0, 1}

RECURSIVE WriteGenerated(_, _, _)
WriteGenerated(st, dir, names) ==
  IF names = {} THEN st
  ELSE LET n == CHOOSE x \in names : TRUE
       IN WriteGenerated(
            WriteFile(mkdir_p(st, dir), join(dir, n),
                      <<"generated">> \o Flatten(Abs(st.cwd, join(dir, n)))),
            dir, names \ {n})

\* The child process writes its outputs relative to its working directory.
RunConfigure(st, out) ==
  WriteGenerated(WriteGenerated(st, <<>>, out.root), << <<"include">> >>, out.include)

\* ----------------------------------------------------------- header unifier
\* The orders in which a set can be iterated.
Orders(S) ==
  { s \in [1..Cardinality(S) -> S] : \A a, b \in 1..Cardinality(S) : s[a] = s[b] => a = b }

\* A variant of Block whose #include names the header without its architecture.
Block_Unsuffixed(header_name, tag_tuple) ==
  <<tag_tuple[1], "#include <">> \o splitext(header_name)[1]
     \o splitext(header_name)[2] \o <<">\n", tag_tuple[3], "\n">>

\* One formatted block: '%s#include <%s_%s%s>\n%s\n'.
Block(header_name, tag_tuple) ==
  <<tag_tuple[1], "#include <">> \o splitext(header_name)[1] \o <<"_", tag_tuple[2]>>
     \o splitext(header_name)[2] \o <<">\n", tag_tuple[3], "\n">>

RECURSIVE Body(_, _)
Body(header_name, tuples) ==
  IF tuples = <<>> THEN <<>>
  ELSE Block(header_name, Head(tuples)) \o Body(header_name, Tail(tuples))

UmbrellaDir == << <<"darwin_common">>, <<"include">> >>

RECURSIVE WriteUmbrellas(_, _, _)
WriteUmbrellas(st, order, names) ==
  IF names = {} THEN st
  ELSE LET n == CHOOSE x \in names : TRUE
       IN WriteUmbrellas(WriteFile(st, join(UmbrellaDir, n), Body(n, order[n])),
                         order, names \ {n})


\* ------------------------------------------------------------------- state
VARIABLES
  mode,              \* how the run was entered: "main", "call" or "harness"
  args,              \* parsed command line (disable_ios/disable_tvos/disable_osx)
  flags,             \* generate_osx / generate_ios / generate_tvos
  pc,                \* position in generate_source_and_headers: [phase, i]
  cwd,               \* the process's current working directory
  working_dir,       \* build_target's local working_dir (saved os.getcwd())
  platform,          \* build_target's platform argument while it runs
  dirs,              \* existing directories
  fs,                \* files: absolute path -> content
  returncode,        \* exit status of the most recent configure child process
  platform_headers,  \* the header registry: file name -> set of triples
  calls              \* completed build_target calls: [platform, listed]

vars ==
  <<mode, args, flags, pc, cwd, working_dir, platform, returncode, dirs, fs,
    platform_headers, calls>>

\* The directory the script is started in.
OrigDir == <<>>

NoArgs == [disable_ios |-> FALSE, disable_tvos |-> FALSE, disable_osx |-> FALSE]

NoPlatform == "none"

\* The library checkout the script runs in.
SourceTree ==
  { << <<"configure">> >>,
    << <<"src">>, <<"prep_cif", ".c">> >>,
    << <<"src">>, <<"closures", ".c">> >>,
    << <<"include">>, <<"ffi_common", ".h">> >>,
    << <<"include">>, <<"ffi", ".h", ".in">> >> }
  \cup { << <<"src">>, <<"x86">>, n >> :
           n \in { <<"unix64", ".S">>, <<"ffi64", ".c">>, <<"ffiw64", ".c">>, <<"win64", ".S">>,
                   <<"internal64", ".h">>, <<"asmnames", ".h">>,
                   <<"sysv", ".S">>, <<"ffi", ".c">>, <<"internal", ".h">> } }
  \cup { << <<"src">>, d, n >> :
           d \in { <<"arm">>, <<"aarch64">> },
           n \in { <<"sysv", ".S">>, <<"ffi", ".c">>, <<"internal", ".h">> } }

\* Files a broken checkout may lack: a source and a header of each
\* architecture subdirectory.
Removable ==
  { << <<"src">>, <<"x86">>, <<"unix64", ".S">> >>,
    << <<"src">>, <<"x86">>, <<"asmnames", ".h">> >>,
    << <<"src">>, <<"arm">>, <<"ffi", ".c">> >>,
    << <<"src">>, <<"arm">>, <<"internal", ".h">> >>,
    << <<"src">>, <<"aarch64">>, <<"sysv", ".S">> >>,
    << <<"src">>, <<"aarch64">>, <<"internal", ".h">> >> }

\* The bytes of a file of the checkout.
Original(path) == <<"bytes">> \o Flatten(path)

InitFs(missing) == [q \in SourceTree \ missing |-> Original(q)]

InitDirs(files) == UNION { Prefixes(SubSeq(q, 1, Len(q) - 1)) : q \in files }

Cur == [cwd |-> cwd, dirs |-> dirs, fs |-> fs, err |-> FALSE]

\* A variant of MainFlags that passes the parsed --disable-tvos on.
MainFlags_HonoursTvos(a) ==
  [generate_osx |-> ~a.disable_osx, generate_ios |-> ~a.disable_ios,
   generate_tvos |-> ~a.disable_tvos]

\* __main__: argparse, then the call with generate_tvos=False.
MainFlags(a) ==
  [generate_osx |-> ~a.disable_osx, generate_ios |-> ~a.disable_ios, generate_tvos |-> FALSE]

InitCommon ==
  /\ cwd = OrigDir
  /\ working_dir = OrigDir
  /\ platform = NoPlatform
  /\ returncode = 0
  /\ dirs = InitDirs(SourceTree)
  /\ platform_headers = << >>
  /\ calls = {}

Init ==
  /\ InitCommon
  /\ pc = [phase |-> "start", i |-> 0]
  /\ \E missing \in SUBSET Removable :
        /\ Cardinality(missing) <= MaxMissing
        /\ fs = InitFs(missing)
  /\ \/ /\ mode = "main"
        /\ args \in [disable_ios : BOOLEAN, disable_tvos : BOOLEAN, disable_osx : BOOLEAN]
        /\ flags = MainFlags(args)
     \/ /\ mode = "call"
        /\ args = NoArgs
        /\ flags \in [generate_osx : BOOLEAN, generate_ios : BOOLEAN, generate_tvos : BOOLEAN]

\* ------------------------------------------------------------------ driver
\* A variant of StageCalls whose desktop staging is not guarded by generate_osx.
StageCalls_DesktopUnguarded(f) ==
  (IF f.generate_ios
   THEN <<ios_simulator64_platform, ios_device_platform, ios_device64_platform>> ELSE <<>>)
  \o (IF f.generate_tvos
      THEN <<tvos_simulator64_platform, tvos_device64_platform>> ELSE <<>>)
  \o <<desktop_amd64_platform, desktop_arm64_platform>>

\* The copy_src_platform_files calls of the driver, in program order.
StageCalls(f) ==
  (IF f.generate_ios
   THEN <<ios_simulator64_platform, ios_device_platform, ios_device64_platform>> ELSE <<>>)
  \o (IF f.generate_tvos
      THEN <<tvos_simulator64_platform, tvos_device64_platform>> ELSE <<>>)
  \o (IF f.generate_osx
      THEN <<desktop_amd64_platform, desktop_arm64_platform>> ELSE <<>>)

\* The build_target calls of the driver, in program order.
BuildCalls(f) ==
  (IF f.generate_ios
   THEN <<ios_simulator64_platform, ios_device_platform, ios_device64_platform>> ELSE <<>>)
  \o (IF f.generate_tvos
      THEN <<tvos_simulator64_platform, tvos_device64_platform>> ELSE <<>>)
  \o (IF f.generate_osx
      THEN <<desktop_amd64_platform, desktop_arm64_platform>> ELSE <<>>)

Failed == [phase |-> "failed", i |-> 0]

\* Lines 201-202: stage the common sources and headers.
CopyCommon ==
  /\ pc.phase = "start"
  /\ LET s1 == copy_pattern(Cur, << <<"src">> >>, << <<"darwin_common">>, <<"src">> >>,
                            ".c", None, None, None)
         s2 == copy_pattern(s1, << <<"include">> >>, UmbrellaDir, ".h", None, None, None)
     IN /\ dirs' = s2.dirs
        /\ fs' = s2.fs
        /\ pc' = IF s2.err THEN Failed ELSE [phase |-> "stage", i |-> 1]
  /\ UNCHANGED <<mode, args, flags, cwd, working_dir, platform, returncode, platform_headers, calls>>

\* A variant of StagePlatform that carries on after a missing file.
StagePlatform_SwallowsError ==
  /\ pc.phase = "stage"
  /\ pc.i <= Len(StageCalls(flags))
  /\ LET s == copy_src_platform_files(Cur, StageCalls(flags)[pc.i])
     IN /\ dirs' = s.dirs
        /\ fs' = s.fs
        /\ pc' = [pc EXCEPT !.i = pc.i + 1]
  /\ UNCHANGED <<mode, args, flags, cwd, working_dir, platform, returncode, platform_headers, calls>>

\* One copy_src_platform_files call of lines 204-214.
StagePlatform ==
  /\ pc.phase = "stage"
  /\ pc.i <= Len(StageCalls(flags))
  /\ LET s == copy_src_platform_files(Cur, StageCalls(flags)[pc.i])
     IN /\ dirs' = s.dirs
        /\ fs' = s.fs
        /\ pc' = IF s.err THEN Failed ELSE [pc EXCEPT !.i = pc.i + 1]
  /\ UNCHANGED <<mode, args, flags, cwd, working_dir, platform, returncode, platform_headers, calls>>

\* Line 216: platform_headers = collections.defaultdict(set).
CreateRegistry ==
  /\ pc.phase = "stage"
  /\ pc.i > Len(StageCalls(flags))
  /\ platform_headers' = << >>
  /\ pc' = [phase |-> "build", i |-> 1]
  /\ UNCHANGED <<mode, args, flags, cwd, working_dir, platform, returncode, dirs, fs, calls>>

\* build_target up to the start of the configure child process.
BeginBuild(p) ==
  LET s == build_target_enter(Cur, p)
  IN /\ working_dir' = cwd
     /\ platform' = p
     /\ cwd' = s.cwd
     /\ dirs' = s.dirs
     /\ fs' = s.fs

\* One build_target call of lines 218-228 begins.
BuildStart ==
  /\ pc.phase = "build"
  /\ pc.i <= Len(BuildCalls(flags))
  /\ BeginBuild(BuildCalls(flags)[pc.i])
  /\ pc' = [pc EXCEPT !.phase = "configure"]
  /\ UNCHANGED <<mode, args, flags, returncode, platform_headers, calls>>

ReturnPhase == IF mode = "harness" THEN "harness" ELSE "build"

\* A variant of ConfigureFails that ignores the exit status (subprocess.call).
ConfigureFails_StatusIgnored ==
  /\ pc.phase = "configure"
  /\ \E out \in ConfigureOutputs, rc \in ExitCodes \ {0} :
       LET s == RestoreCwd(RunConfigure(Cur, out), working_dir)
           r == build_target_stage(s, platform_headers, platform)
       IN /\ cwd' = r.st.cwd
          /\ dirs' = r.st.dirs
          /\ fs' = r.st.fs
          /\ returncode' = rc
          /\ platform_headers' = r.registry
          /\ calls' = calls \cup {[platform |-> platform.name, listed |-> r.listed]}
  /\ pc' = [phase |-> ReturnPhase, i |-> pc.i + 1]
  /\ platform' = NoPlatform
  /\ UNCHANGED <<mode, args, flags, working_dir>>

\* The configure child process exits with a non-zero status:
\* check_call raises, the finally clause runs, the exception propagates.
ConfigureFails ==
  /\ pc.phase = "configure"
  /\ \E out \in ConfigureOutputs, rc \in ExitCodes \ {0} :
       LET s == RestoreCwd(RunConfigure(Cur, out), working_dir)
       IN /\ cwd' = s.cwd
          /\ dirs' = s.dirs
          /\ fs' = s.fs
          /\ returncode' = rc
  /\ pc' = Failed
  /\ platform' = NoPlatform
  /\ UNCHANGED <<mode, args, flags, working_dir, platform_headers, calls>>

\* The configure child process exits with status 0: the finally clause
\* runs, then build_target stages the generated headers and records them.
ConfigureSucceeds ==
  /\ pc.phase = "configure"
  /\ \E out \in ConfigureOutputs :
       LET s == RestoreCwd(RunConfigure(Cur, out), working_dir)
           r == build_target_stage(s, platform_headers, platform)
       IN /\ cwd' = r.st.cwd
          /\ dirs' = r.st.dirs
          /\ fs' = r.st.fs
          /\ platform_headers' = r.registry
          /\ calls' = calls \cup {[platform |-> platform.name, listed |-> r.listed]}
          /\ pc' = IF r.st.err THEN Failed
                   ELSE [phase |-> ReturnPhase, i |-> pc.i + 1]
  /\ platform' = NoPlatform
  /\ returncode' = 0
  /\ UNCHANGED <<mode, args, flags, working_dir>>

\* Lines 230-235: the header unifier loop.
Unify ==
  /\ pc.phase = "build"
  /\ pc.i > Len(BuildCalls(flags))
  /\ \E order \in [DOMAIN platform_headers ->
                     UNION { Orders(platform_headers[h]) : h \in DOMAIN platform_headers }] :
       /\ \A h \in DOMAIN platform_headers : order[h] \in Orders(platform_headers[h])
       /\ LET s == WriteUmbrellas(mkdir_p(Cur, UmbrellaDir), order, DOMAIN platform_headers)
          IN /\ dirs' = s.dirs
             /\ fs' = s.fs
  /\ pc' = [phase |-> "done", i |-> 0]
  /\ UNCHANGED <<mode, args, flags, cwd, working_dir, platform, returncode, platform_headers, calls>>

Next ==
  \/ CopyCommon
  \/ StagePlatform
  \/ CreateRegistry
  \/ BuildStart
  \/ ConfigureFails
  \/ ConfigureSucceeds
  \/ Unify

Spec == Init /\ [][Next]_vars

\* ----------------------------------------------- repeated build_target calls
\* A caller that invokes build_target repeatedly on one registry within one
\* process, for any platforms of the table.
InitHarness ==
  /\ InitCommon
  /\ mode = "harness"
  /\ args = NoArgs
  /\ flags = [generate_osx |-> TRUE, generate_ios |-> TRUE, generate_tvos |-> FALSE]
  /\ fs = InitFs({})
  /\ pc = [phase |-> "harness", i |-> 1]

HarnessCall ==
  /\ pc.phase = "harness"
  /\ pc.i <= MaxCalls
  /\ \E p \in Platforms : BeginBuild(p)
  /\ pc' = [pc EXCEPT !.phase = "configure"]
  /\ UNCHANGED <<mode, args, flags, returncode, platform_headers, calls>>

NextHarness ==
  \/ HarnessCall
  \/ ConfigureFails
  \/ ConfigureSucceeds

SpecHarness == InitHarness /\ [][NextHarness]_vars


\* ================================================================= properties
\* Vocabulary shared by the properties below.

\* The descriptors each generate_* flag of the driver governs.
FamilyPlatforms(flag) ==
  CASE flag = "generate_ios" ->
         {ios_simulator64_platform, ios_device_platform, ios_device64_platform}
    [] flag = "generate_tvos" -> {tvos_simulator64_platform, tvos_device64_platform}
    [] flag = "generate_osx" -> {desktop_amd64_platform, desktop_arm64_platform}

FamilyFlags == {"generate_ios", "generate_tvos", "generate_osx"}

FlagOn(flag) ==
  CASE flag = "generate_ios" -> flags.generate_ios
    [] flag = "generate_tvos" -> flags.generate_tvos
    [] flag = "generate_osx" -> flags.generate_osx

EnabledPlatforms == UNION { FamilyPlatforms(f) : f \in { g \in FamilyFlags : FlagOn(g) } }

\* Files below a top-level directory of the working tree.
FilesUnder(top) == { q \in DOMAIN fs : Len(q) > 1 /\ q[1] = top }

\* Files directly inside a directory.
FilesIn(dir) == { q \in DOMAIN fs : Len(q) = Len(dir) + 1 /\ SubSeq(q, 1, Len(dir)) = dir }

Mentions(content, token) == \E k \in 1..Len(content) : content[k] = token

\* Files of darwin_common/include that carry #include blocks.
UmbrellaFiles == { q \in FilesIn(UmbrellaDir) : Mentions(fs[q], "#include <") }

\* Nothing of a descriptor's family has been staged or built.
NothingStaged(p) == FilesUnder(p.directory) = {}

NotBuilt(p) ==
  /\ << <<"build_", p.sdk, "-", p.arch>> >> \notin dirs
  /\ \A c \in calls : c.platform # p.name

\* ---------------------------------------------------------------------- C1
\* C1 as stated: when a family's flag is off, nothing is staged or built for
\* its descriptors and none of the family's architectures appears in any
\* umbrella header, even when an enabled family has the same architecture.
C1_DisabledArchNeverAppears ==
  \A f \in FamilyFlags : ~FlagOn(f) =>
     \A p \in FamilyPlatforms(f) :
        /\ NothingStaged(p)
        /\ NotBuilt(p)
        /\ \A q \in UmbrellaFiles : ~Mentions(fs[q], p.arch)

\* C1 amended: when a family's flag is off, nothing is staged or built for
\* its descriptors, no registry triple and no umbrella block comes from them:
\* every architecture written into an umbrella header is the architecture of
\* an enabled descriptor (so an architecture a disabled family shares with an
\* enabled one still appears).
C1_DisabledFamilyContributesNothing ==
  /\ \A f \in FamilyFlags : ~FlagOn(f) =>
        \A p \in FamilyPlatforms(f) : NothingStaged(p) /\ NotBuilt(p)
  /\ \A h \in DOMAIN platform_headers : \A t \in platform_headers[h] :
        \E p \in EnabledPlatforms : t = <<p.prefix, p.arch, p.suffix>>
  /\ \A q \in UmbrellaFiles : \A p \in Platforms :
        Mentions(fs[q], p.arch) => \E e \in EnabledPlatforms : e.arch = p.arch

\* A finished run with the desktop family off and the iOS family on, whose
\* umbrella ffi.h names x86_64 (shared with desktop) and armv7 (iOS only).
C1_Witness ==
  /\ pc.phase = "done"
  /\ ~flags.generate_osx /\ flags.generate_ios /\ ~flags.generate_tvos
  /\ Abs(OrigDir, join(UmbrellaDir, <<"ffi", ".h">>)) \in UmbrellaFiles
  /\ Mentions(fs[Abs(OrigDir, join(UmbrellaDir, <<"ffi", ".h">>))], "armv7")
  /\ FilesUnder(<<"darwin_ios">>) # {}
  /\ FilesUnder(<<"darwin_osx">>) = {}


\* ---------------------------------------------------------------------- C2
\* C2: once the configure child of a build_target call exits non-zero the run
\* is over: that step ends in the failed state with no umbrella header
\* written, and nothing at all happens afterwards (no later build_target,
\* no unifier), whichever build_target call it was.
C2_ConfigureFailureAborts ==
  /\ [][ pc.phase = "configure" =>
            \/ returncode' = 0 /\ pc'.phase # "failed"
            \/ returncode' # 0 /\ pc'.phase = "failed" /\ calls' = calls
                 /\ platform_headers' = platform_headers ]_vars
  /\ [][ pc.phase # "failed" ]_vars
  /\ [](returncode # 0 => pc.phase = "failed" /\ UmbrellaFiles = {})

\* The configure of the last build_target call of a two-family run failed,
\* after the earlier calls had filled the registry.
C2_Witness ==
  /\ pc.phase = "failed"
  /\ returncode # 0
  /\ flags.generate_ios /\ flags.generate_osx /\ ~flags.generate_tvos
  /\ Cardinality(calls) = 4
  /\ << <<"build_", "macosx", "-", "arm64">> >> \in dirs
  /\ DOMAIN platform_headers # {}

\* ---------------------------------------------------------------------- C3
\* C3: the working directory is the build directory exactly while the
\* configure child runs and is the original directory in every other state,
\* in particular after a build_target call that succeeded or raised; every
\* staging step therefore resolves its paths against the original directory.
C3_CwdRestored ==
  /\ pc.phase = "configure" =>
        /\ working_dir = OrigDir
        /\ cwd = OrigDir \o << <<"build_", platform.sdk, "-", platform.arch>> >>
  /\ pc.phase # "configure" => cwd = OrigDir
  /\ \A q \in DOMAIN fs :
        \/ q[1] \in { <<"darwin_common">>, <<"darwin_ios">>, <<"darwin_tvos">>, <<"darwin_osx">> }
        \/ q \in SourceTree
        \/ /\ q[1] \in { <<"build_", p.sdk, "-", p.arch>> : p \in Platforms }
           /\ (Len(q) = 2 \/ (Len(q) = 3 /\ q[2] = <<"include">>))

\* The very first build_target call raised, and the process is back in the
\* original directory.
C3_Witness ==
  /\ pc.phase = "failed"
  /\ returncode # 0
  /\ calls = {}
  /\ << <<"build_", "iphonesimulator", "-", "x86_64">> >> \in dirs
  /\ cwd = OrigDir

\* ---------------------------------------------------------------------- C4
\* The source files of descriptor p are all staged.
SourcesStaged(p) ==
  \A k \in 1..Len(p.src_files) :
     \E q \in FilesIn(<<p.directory, <<"src">>, p.src_dir>>) :
        q[Len(q)][1] = p.src_files[k][1]

CommonStaged ==
  \A q \in FilesIn(<< <<"src">> >>) :
     q[Len(q)][Len(q[Len(q)])] = ".c" =>
        << <<"darwin_common">>, <<"src">>, q[Len(q)] >> \in DOMAIN fs

EnabledCount == Cardinality(EnabledPlatforms)

\* C4: the driver only moves forward: start, then one staging step per
\* enabled descriptor, then one build per enabled descriptor, then the
\* unifier, then done; a failing step goes straight to failed; done and
\* failed are terminal.  No build starts before every enabled descriptor is
\* staged, and umbrella headers exist only in the done state, after the
\* last build.
C4_LinearDriver ==
  /\ [][ \/ pc.phase = "start" /\ pc'.phase = "stage" /\ pc'.i = 1 /\ CommonStaged'
         \/ pc.phase = "stage" /\ pc'.phase = "stage" /\ pc'.i = pc.i + 1
              /\ pc.i <= EnabledCount
         \/ pc.phase = "stage" /\ pc'.phase = "build" /\ pc'.i = 1
              /\ pc.i = EnabledCount + 1
         \/ pc.phase = "build" /\ pc'.phase = "configure" /\ pc'.i = pc.i
              /\ pc.i <= EnabledCount
         \/ pc.phase = "configure" /\ pc'.phase = "build" /\ pc'.i = pc.i + 1
         \/ pc.phase = "build" /\ pc'.phase = "done" /\ pc.i = EnabledCount + 1
         \/ pc.phase \in {"start", "stage", "configure"} /\ pc'.phase = "failed"
              /\ UmbrellaFiles' = {} /\ calls' = calls
       ]_vars
  /\ [](pc.phase \in {"build", "configure", "done"} =>
          /\ CommonStaged
          /\ \A p \in EnabledPlatforms : SourcesStaged(p))
  /\ [](pc.phase \in {"start", "stage"} =>
          calls = {} /\ \A p \in Platforms : << <<"build_", p.sdk, "-", p.arch>> >> \notin dirs)
  /\ [](pc.phase = "done" => \A p \in EnabledPlatforms : \E c \in calls : c.platform = p.name)
  /\ [](UmbrellaFiles # {} => pc.phase = "done")

\* A run of all three families that went through every step and wrote
\* umbrella headers.
C4_Witness ==
  /\ pc.phase = "done"
  /\ flags.generate_ios /\ flags.generate_tvos /\ flags.generate_osx
  /\ Cardinality(calls) = 7
  /\ UmbrellaFiles # {}


\* ---------------------------------------------------------------------- C5
\* The three header names that are never suffixed.
Unsuffixed == { <<"internal64", ".h">>, <<"asmnames", ".h">>, <<"internal", ".h">> }

\* stem + '_' + arch + extension for a two-token file name.
Suffixed(name, arch) == <<name[1], "_", arch, name[2]>>

\* Where a name staged for architecture arch must land.
Landing(name, arch) == IF name \in Unsuffixed THEN name ELSE Suffixed(name, arch)

\* The header names present in the build directory of p (its top level and
\* its include/ subdirectory) and the bytes staged for each: the include/
\* copy is staged second and so is the one that stays.
BuiltHeaders(p, files) ==
  { q[Len(q)] : q \in { r \in DOMAIN files :
       /\ r[1] = <<"build_", p.sdk, "-", p.arch>>
       /\ Len(r) = 2 \/ (Len(r) = 3 /\ r[2] = <<"include">>)
       /\ r[Len(r)][Len(r[Len(r)])] = ".h" } }

BuiltBytes(p, files, h) ==
  IF << <<"build_", p.sdk, "-", p.arch>>, <<"include">>, h >> \in DOMAIN files
  THEN files[<< <<"build_", p.sdk, "-", p.arch>>, <<"include">>, h >>]
  ELSE files[<< <<"build_", p.sdk, "-", p.arch>>, h >>]

PlatformDirs == { p.directory : p \in Platforms }

StagedPlatforms ==
  IF pc.phase = "stage"
  THEN { StageCalls(flags)[k] : k \in 1..(pc.i - 1) }
  ELSE IF pc.phase \in {"build", "configure", "done"} THEN EnabledPlatforms ELSE {}

\* The bytes of a listed header in the checkout.
HeaderBytes(p, h) == fs[<< <<"src">>, p.src_dir, h >>]

\* C6 as stated: after copy_src_platform_files the platform's include
\* directory holds every listed header, as prefix + original + suffix.
C6_HeadersInIncludeDir ==
  \A p \in StagedPlatforms : \A k \in 1..Len(p.hdr_files) :
     /\ <<p.directory, <<"include">>, p.hdr_files[k]>> \in DOMAIN fs
     /\ fs[<<p.directory, <<"include">>, p.hdr_files[k]>>]
          = <<p.prefix>> \o HeaderBytes(p, p.hdr_files[k]) \o <<p.suffix>>

\* C6 amended: after copy_src_platform_files the directory
\* <directory>/src/<src_dir> (the one the sources are staged into, not the
\* include directory) holds every listed header under its own name, with
\* content exactly prefix + original + suffix.
C6_HeadersInSrcDir ==
  \A p \in StagedPlatforms : \A k \in 1..Len(p.hdr_files) :
     /\ <<p.directory, <<"src">>, p.src_dir, p.hdr_files[k]>> \in DOMAIN fs
     /\ fs[<<p.directory, <<"src">>, p.src_dir, p.hdr_files[k]>>]
          = <<p.prefix>> \o HeaderBytes(p, p.hdr_files[k]) \o <<p.suffix>>

\* The two-header descriptor desktop_amd64_platform has just been staged.
C6_Witness ==
  /\ pc.phase = "stage" /\ pc.i = 2
  /\ flags.generate_osx /\ ~flags.generate_ios /\ ~flags.generate_tvos
  /\ << <<"darwin_osx">>, <<"src">>, <<"x86">>, <<"asmnames", ".h">> >> \in DOMAIN fs
  /\ << <<"darwin_osx">>, <<"include">> >> \notin dirs

\* ---------------------------------------------------------------------- C7
\* '%s#include <%s_%s%s>\n%s\n' for header h (two tokens) and triple t.
ExpectedBlock(h, t) ==
  <<t[1], "#include <", h[1], "_", t[2], h[2], ">\n", t[3], "\n">>

\* The blocks a body consists of, read nine tokens at a time.
BlocksOf(content) ==
  [k \in 1..(Len(content) \div 9) |-> SubSeq(content, 9 * (k - 1) + 1, 9 * k)]

\* C7: in a finished run every header name of the registry has an umbrella
\* file in darwin_common/include whose body is one block per recorded triple
\* and nothing else (each triple exactly once, in some order), a block being
\* prefix, #include <stem_arch.ext>, suffix; and no other umbrella is written.
C7_UmbrellaBlocks ==
  pc.phase = "done" =>
    /\ \A h \in DOMAIN platform_headers :
         LET q == Append(UmbrellaDir, h)
         IN /\ q \in DOMAIN fs
            /\ Len(fs[q]) = 9 * Cardinality(platform_headers[h])
            /\ \A t \in platform_headers[h] :
                 Cardinality({ k \in DOMAIN BlocksOf(fs[q]) :
                                 BlocksOf(fs[q])[k] = ExpectedBlock(h, t) }) = 1
    /\ \A q \in UmbrellaFiles : q[Len(q)] \in DOMAIN platform_headers
    /\ \A e \in EnabledPlatforms : \A c \in calls : c.platform = e.name =>
         \A h \in c.listed :
            h \in DOMAIN platform_headers /\ <<e.prefix, e.arch, e.suffix>> \in platform_headers[h]

\* The umbrella ffi.h of a finished desktop-only run holds the x86_64 block
\* and the arm64 block, referencing ffi_x86_64.h and ffi_arm64.h.
C7_Witness ==
  /\ pc.phase = "done"
  /\ flags.generate_osx /\ ~flags.generate_ios /\ ~flags.generate_tvos
  /\ <<"ffi", ".h">> \in DOMAIN platform_headers
  /\ Cardinality(platform_headers[<<"ffi", ".h">>]) = 2
  /\ \E k1, k2 \in 1..2 :
       /\ BlocksOf(fs[Append(UmbrellaDir, <<"ffi", ".h">>)])[k1]
            = <<"#ifdef __x86_64__\n\n", "#include <", "ffi", "_", "x86_64", ".h", ">\n",
                "\n\n#endif", "\n">>
       /\ BlocksOf(fs[Append(UmbrellaDir, <<"ffi", ".h">>)])[k2]
            = <<"#ifdef __arm64__\n\n", "#include <", "ffi", "_", "arm64", ".h", ">\n",
                "\n\n#endif", "\n">>


\* ---------------------------------------------------------------------- C8
\* C8: across build_target calls on one registry, a call never removes a
\* header name or a triple recorded earlier, and a call for a platform that
\* was already built with the same build-directory headers leaves the
\* registry exactly as it was (checked for callers that repeat build_target).
C8_RegistryAdditiveIdempotent ==
  [][ /\ \A h \in DOMAIN platform_headers :
           h \in DOMAIN platform_headers' /\ platform_headers[h] \subseteq platform_headers'[h]
      /\ (pc.phase = "configure" /\ returncode' = 0) =>
           /\ \A h \in BuiltHeaders(platform, fs') :
                /\ h \in DOMAIN platform_headers'
                /\ <<platform.prefix, platform.arch, platform.suffix>> \in platform_headers'[h]
           /\ [platform |-> platform.name, listed |-> BuiltHeaders(platform, fs')] \in calls
                => platform_headers' = platform_headers ]_vars

\* build_target ran twice for the same platform over the same headers, after
\* which the registry still holds one triple under each of its names.
C8_Witness ==
  /\ pc.phase = "harness" /\ pc.i = 3
  /\ Cardinality(calls) = 1
  /\ DOMAIN platform_headers # {}
  /\ \A h \in DOMAIN platform_headers : Cardinality(platform_headers[h]) = 1

\* ---------------------------------------------------------------------- C9
\* Some descriptor of the family has staged files, a build directory, or a
\* completed build.
Touched(ps) == \E p \in ps : ~NothingStaged(p) \/ ~NotBuilt(p)

\* Every descriptor of the family is staged and built.
Generated(ps) ==
  \A p \in ps : SourcesStaged(p) /\ \E c \in calls : c.platform = p.name

\* C9: started from the command line, with any of --disable-ios,
\* --disable-tvos, --disable-osx present or absent, no tvOS descriptor is
\* ever staged or built; the iOS family is touched only when --disable-ios is
\* absent and the desktop family only when --disable-osx is absent, and a
\* finished run has generated exactly the families whose flag is absent.
C9_CommandLineFamilies ==
  mode = "main" =>
    /\ ~Touched(FamilyPlatforms("generate_tvos"))
    /\ FilesUnder(<<"darwin_tvos">>) = {}
    /\ args.disable_ios => ~Touched(FamilyPlatforms("generate_ios"))
    /\ args.disable_osx => ~Touched(FamilyPlatforms("generate_osx"))
    /\ pc.phase = "done" =>
         /\ Generated(FamilyPlatforms("generate_ios")) <=> ~args.disable_ios
         /\ Generated(FamilyPlatforms("generate_osx")) <=> ~args.disable_osx

\* A finished command-line run without any --disable flag: iOS and desktop
\* are generated, tvOS is not.
C9_Witness ==
  /\ mode = "main"
  /\ ~args.disable_ios /\ ~args.disable_tvos /\ ~args.disable_osx
  /\ pc.phase = "done"
  /\ Generated(FamilyPlatforms("generate_ios"))
  /\ Generated(FamilyPlatforms("generate_osx"))
  /\ FilesUnder(<<"darwin_tvos">>) = {}

\* --------------------------------------------------------------------- C10
\* C10: in a finished run, every #include of an umbrella header names a file
\* build_target staged: for each header h a build found and the triple
\* recorded for it, stem(h)_arch.ext(h) exists in the include directory of
\* the platform that recorded the triple, whatever the header's name.
C10_IncludedFilesExist ==
  pc.phase = "done" =>
    \A p \in EnabledPlatforms : \A c \in calls : c.platform = p.name =>
       \A h \in c.listed :
          /\ <<p.prefix, p.arch, p.suffix>> \in platform_headers[h]
          /\ <<p.directory, <<"include">>, Suffixed(h, p.arch)>> \in DOMAIN fs

====
